---- MODULE Spec2Model ----
(***************************************************************************)
(* The app-level lock manager of the adapter facade: transaction(),        *)
(* acquireLock(), releaseLock() and getNextLock(), running over a          *)
(* transaction collection whose create / findAll / destroy are             *)
(* asynchronous: an adapter operation takes effect when it is called and   *)
(* delivers its callback in a later step, in any order with the others.    *)
(***************************************************************************)
EXTENDS Integers, FiniteSets, Sequences, TLC

\* number of transaction() calls issued in one run
NCalls == 3

\* number of adapter operations that fail in one run
MaxFaults == 1

\* (for sorting) 4294967295 in the source; the checker's integers end at
\* 2147483647, and every id of a run stays below NCalls + 2
MAX_INTEGER == 2147483647

Calls == 1..NCalls

\* transaction names
Names == {"X", "Y"}

\* processes sharing the transaction collection
Procs == {"P1", "P2"}

\* "no lock": an undefined nextLock / nextInLine; a lock is held as {c}
None == {}

VARIABLES
    calls,             \* number of transaction() calls issued so far
    name,              \* name[c]: transactionName of call c (newLock.name)
    proc,              \* proc[c]: the process in which call c was made
    pc,                \* pc[c]: where call c stands between enqueue and decision
    locks,             \* locks[c]: the lock list last read by call c's scan
    rows,              \* the lock entries in the transaction collection (by uuid)
    id,                \* id[c]: the id the adapter assigned to call c's entry, 0 before
    nextId,            \* the adapter's next id
    sections,          \* one record per atomicLogic(null, unlock) invocation
    atomicCalls,       \* atomicCalls[c]: invocations atomicLogic(null, unlock)
    atomicErrCalls,    \* atomicErrCalls[c]: invocations atomicLogic(err, thrower)
    afterUnlockCalls,  \* afterUnlockCalls[c]: invocations of afterUnlock
    threw,             \* threw[c]: the synthetic unlock was called and threw
    faults             \* number of adapter operations that have failed

vars == <<calls, name, proc, pc, locks, rows, id, nextId, sections,
          atomicCalls, atomicErrCalls, afterUnlockCalls, threw, faults>>

\* a part of the facade that is not running
Idle == [step |-> "idle"]

\* The facade around the lock manager
VARIABLES
    norm,              \* one run of normalizeCriteria on its own result
    op,                \* one call of a facade operation
    alt,               \* one call of alter
    work,              \* the compound operations run as atomicLogic
    ddl                \* one call of define

facadeVars == <<norm, op, alt, work, ddl>>

callVars == <<calls, name, proc>>
countVars == <<atomicCalls, atomicErrCalls, afterUnlockCalls>>

----------------------------------------------------------------------------
\* Pure helpers

\* the test of eachLock, with the name test dropped
conflict_anyName(lockList, newLock) ==
    \E entry \in lockList :
        /\ entry # newLock
        /\ id[entry] < id[newLock]

\* eachLock: is there an older entry with the same name and another uuid
conflict(lockList, newLock) ==
    \E entry \in lockList :
        /\ name[entry] = name[newLock]
        /\ entry # newLock
        /\ id[entry] < id[newLock]

RECURSIVE eachNextLock(_, _, _)
eachNextLock(lockList, currentLock, nextLock) ==
    IF lockList = {} THEN nextLock
    ELSE LET lock == CHOOSE l \in lockList : TRUE
             rest == lockList \ {lock}
             minId == IF nextLock # None
                         THEN id[CHOOSE l \in nextLock : TRUE] ELSE MAX_INTEGER
         IN  IF name[lock] # name[currentLock]
                 THEN eachNextLock(rest, currentLock, nextLock)
             ELSE IF lock = currentLock
                 THEN eachNextLock(rest, currentLock, nextLock)
             ELSE IF id[lock] < minId
                 THEN eachNextLock(rest, currentLock, {lock})
             ELSE eachNextLock(rest, currentLock, nextLock)

\* getNextLock keeping the entry with the largest id
getNextLock_largest(lockList, currentLock) ==
    LET others == {l \in lockList : name[l] = name[currentLock] /\ l # currentLock}
    IN  IF others = {} THEN None
        ELSE {CHOOSE l \in others : \A m \in others : id[m] <= id[l]}

\* getNextLock: the oldest lock with the same name that is not the current one
getNextLock(lockList, currentLock) ==
    eachNextLock(lockList, currentLock, None)

\* the lock held in a nextLock / nextInLine
Lock(held) == CHOOSE l \in held : TRUE

\* the fresh record of one critical section
NewSection(c) ==
    [ lock         |-> c,
      k            |-> atomicCalls[c] + 1,
      stage        |-> "running",
      warningTimer |-> TRUE,
      locks        |-> {},
      nextInLine   |-> None,
      afterArgs    |-> 0,
      afterErr     |-> 0,
      promoted     |-> None ]

\* can process p call the atomicLogic function of this entry
Callable(entry, p) == proc[entry] = p

----------------------------------------------------------------------------
LockInit ==
    /\ calls = 0
    /\ name = [c \in Calls |-> "X"]
    /\ proc = [c \in Calls |-> "P1"]
    /\ pc = [c \in Calls |-> "idle"]
    /\ locks = [c \in Calls |-> {}]
    /\ rows = {}
    /\ id = [c \in Calls |-> 0]
    /\ nextId = 1
    /\ sections = {}
    /\ atomicCalls = [c \in Calls |-> 0]
    /\ atomicErrCalls = [c \in Calls |-> 0]
    /\ afterUnlockCalls = [c \in Calls |-> 0]
    /\ threw = [c \in Calls |-> FALSE]
    /\ faults = 0

Init ==
    /\ LockInit
    /\ norm = Idle
    /\ op = Idle
    /\ alt = Idle
    /\ work = Idle
    /\ ddl = Idle

----------------------------------------------------------------------------
\* transaction(): build newLock and hand it to the adapter's create, which
\* writes the entry and assigns the next id, or fails
transaction(n, p) ==
    /\ calls < NCalls
    /\ calls = 0 => (n = "X" /\ p = "P1")
    /\ calls' = calls + 1
    /\ name' = [name EXCEPT ![calls + 1] = n]
    /\ proc' = [proc EXCEPT ![calls + 1] = p]
    /\ rows' = rows \cup {calls + 1}
    /\ id' = [id EXCEPT ![calls + 1] = nextId]
    /\ nextId' = nextId + 1
    /\ pc' = [pc EXCEPT ![calls + 1] = "created"]
    /\ UNCHANGED <<locks, sections, countVars, threw, faults>>

transactionCreateFails(n, p) ==
    /\ calls < NCalls
    /\ calls = 0 => (n = "X" /\ p = "P1")
    /\ faults < MaxFaults
    /\ faults' = faults + 1
    /\ calls' = calls + 1
    /\ name' = [name EXCEPT ![calls + 1] = n]
    /\ proc' = [proc EXCEPT ![calls + 1] = p]
    /\ pc' = [pc EXCEPT ![calls + 1] = "createErr"]
    /\ UNCHANGED <<locks, rows, id, nextId, sections, countVars, threw>>

\* afterCreatingTransaction falling through to the scan after an error
afterCreatingTransaction_noReturn(c, findAllFails) ==
    \/ /\ pc[c] = "createErr"
       /\ ~findAllFails
       /\ atomicErrCalls' = [atomicErrCalls EXCEPT ![c] = @ + 1]
       /\ pc' = [pc EXCEPT ![c] = "found"]
       /\ locks' = [locks EXCEPT ![c] = rows]
       /\ UNCHANGED <<callVars, rows, id, nextId, sections,
                      atomicCalls, afterUnlockCalls, threw, faults>>
    \/ /\ pc[c] = "created"
       /\ findAllFails => faults < MaxFaults
       /\ IF findAllFails
             THEN /\ pc' = [pc EXCEPT ![c] = "findErr"]
                  /\ faults' = faults + 1
                  /\ UNCHANGED locks
             ELSE /\ pc' = [pc EXCEPT ![c] = "found"]
                  /\ locks' = [locks EXCEPT ![c] = rows]
                  /\ UNCHANGED faults
       /\ UNCHANGED <<callVars, rows, id, nextId, sections, countVars, threw>>

\* afterCreatingTransaction: report the error with a throwing unlock, or call
\* the adapter's findAll, which reads the lock list or fails
afterCreatingTransaction(c, findAllFails) ==
    \/ /\ pc[c] = "createErr"
       /\ ~findAllFails
       /\ atomicErrCalls' = [atomicErrCalls EXCEPT ![c] = @ + 1]
       /\ pc' = [pc EXCEPT ![c] = "enqueueFailed"]
       /\ UNCHANGED <<callVars, locks, rows, id, nextId, sections,
                      atomicCalls, afterUnlockCalls, threw, faults>>
    \/ /\ pc[c] = "created"
       /\ findAllFails => faults < MaxFaults
       /\ IF findAllFails
             THEN /\ pc' = [pc EXCEPT ![c] = "findErr"]
                  /\ faults' = faults + 1
                  /\ UNCHANGED locks
             ELSE /\ pc' = [pc EXCEPT ![c] = "found"]
                  /\ locks' = [locks EXCEPT ![c] = rows]
                  /\ UNCHANGED faults
       /\ UNCHANGED <<callVars, rows, id, nextId, sections, countVars, threw>>

\* acquireLock: arm the warning timer and run atomicLogic(null, unlock);
\* the section set and the invocation counts after process p acquires c
acquireLockSections(secs, c, p) ==
    IF Callable(c, p) THEN secs \cup {NewSection(c)} ELSE secs

acquireLockCalls(c, p) ==
    IF Callable(c, p) THEN [atomicCalls EXCEPT ![c] = @ + 1] ELSE atomicCalls

\* afterLookingUpTransactions of transaction(): acquire when no conflict
afterLookingUpTransactions(c) ==
    \/ /\ pc[c] = "findErr"
       /\ atomicErrCalls' = [atomicErrCalls EXCEPT ![c] = @ + 1]
       /\ pc' = [pc EXCEPT ![c] = "scanFailed"]
       /\ UNCHANGED <<callVars, locks, rows, id, nextId, sections,
                      atomicCalls, afterUnlockCalls, threw, faults>>
    \/ /\ pc[c] = "found"
       /\ IF ~conflict(locks[c], c)
             THEN /\ sections' = acquireLockSections(sections, c, proc[c])
                  /\ atomicCalls' = acquireLockCalls(c, proc[c])
                  /\ pc' = [pc EXCEPT ![c] = "acquired"]
             ELSE /\ pc' = [pc EXCEPT ![c] = "queued"]
                  /\ UNCHANGED <<sections, atomicCalls>>
       /\ locks' = [locks EXCEPT ![c] = {}]
       /\ UNCHANGED <<callVars, rows, id, nextId, atomicErrCalls,
                      afterUnlockCalls, threw, faults>>

\* the synthetic unlock handed over with an error: it throws
throwingUnlock(c) ==
    /\ pc[c] \in {"enqueueFailed", "scanFailed"}
    /\ ~threw[c]
    /\ threw' = [threw EXCEPT ![c] = TRUE]
    /\ UNCHANGED <<callVars, pc, locks, rows, id, nextId, sections, countVars, faults>>

----------------------------------------------------------------------------
\* Release

Replace(s, t) == (sections \ {s}) \cup {t}

\* unlock: clear the warning timer; releaseLock calls the adapter's findAll,
\* which reads the lock list or fails
unlock(s, findAllFails) ==
    /\ s.stage = "running"
    /\ findAllFails => faults < MaxFaults
    /\ faults' = IF findAllFails THEN faults + 1 ELSE faults
    /\ sections' = Replace(s, IF findAllFails
                                 THEN [s EXCEPT !.stage = "findErr", !.warningTimer = FALSE]
                                 ELSE [s EXCEPT !.stage = "found", !.warningTimer = FALSE,
                                                !.locks = rows])
    /\ UNCHANGED <<callVars, pc, locks, rows, id, nextId, countVars, threw>>

\* afterLookingUpTransactions of releaseLock: report the error, or pick
\* nextInLine and call the adapter's destroy, which deletes the entry with
\* the uuid of the current lock or fails
afterLookingUpTransactionsRelease(s, destroyFails) ==
    \/ /\ s.stage = "findErr"
       /\ ~destroyFails
       /\ sections' = Replace(s, [s EXCEPT !.stage = "failed", !.afterErr = @ + 1])
       /\ afterUnlockCalls' = [afterUnlockCalls EXCEPT ![s.lock] = @ + 1]
       /\ UNCHANGED <<callVars, pc, locks, rows, id, nextId,
                      atomicCalls, atomicErrCalls, threw, faults>>
    \/ /\ s.stage = "found"
       /\ destroyFails => faults < MaxFaults
       /\ faults' = IF destroyFails THEN faults + 1 ELSE faults
       /\ sections' = Replace(s, [s EXCEPT !.stage = IF destroyFails THEN "destroyErr"
                                                     ELSE "destroyed",
                                           !.nextInLine = getNextLock(s.locks, s.lock),
                                           !.locks = {}])
       /\ rows' = IF destroyFails THEN rows ELSE rows \ {s.lock}
       /\ UNCHANGED <<callVars, pc, locks, id, nextId, countVars, threw>>

\* afterLockReleased going on to the promotion after an error
afterLockReleased_noReturn(s) ==
    /\ s.stage \in {"destroyErr", "destroyed"}
    /\ LET next == s.nextInLine
           t == IF s.stage = "destroyErr"
                   THEN [s EXCEPT !.stage = "failed", !.afterErr = @ + 1, !.promoted = next]
                   ELSE [s EXCEPT !.stage = "released", !.afterArgs = @ + 1, !.promoted = next]
       IN  /\ afterUnlockCalls' = [afterUnlockCalls EXCEPT ![s.lock] = @ + 1]
           /\ IF next # None
                 THEN /\ sections' = acquireLockSections(Replace(s, t), Lock(next), proc[s.lock])
                      /\ atomicCalls' = acquireLockCalls(Lock(next), proc[s.lock])
                 ELSE /\ sections' = Replace(s, t)
                      /\ UNCHANGED atomicCalls
    /\ UNCHANGED <<callVars, pc, locks, rows, id, nextId, atomicErrCalls, threw, faults>>

\* afterLockReleased: report the error, or afterUnlock first and then
\* acquireLock(nextInLine)
afterLockReleased(s) ==
    \/ /\ s.stage = "destroyErr"
       /\ sections' = Replace(s, [s EXCEPT !.stage = "failed", !.afterErr = @ + 1])
       /\ afterUnlockCalls' = [afterUnlockCalls EXCEPT ![s.lock] = @ + 1]
       /\ UNCHANGED <<callVars, pc, locks, rows, id, nextId,
                      atomicCalls, atomicErrCalls, threw, faults>>
    \/ /\ s.stage = "destroyed"
       /\ LET next == s.nextInLine
              t == [s EXCEPT !.stage = "released", !.afterArgs = @ + 1, !.promoted = next]
          IN  /\ afterUnlockCalls' = [afterUnlockCalls EXCEPT ![s.lock] = @ + 1]
              /\ IF next # None
                    THEN /\ sections' = acquireLockSections(Replace(s, t), Lock(next), proc[s.lock])
                         /\ atomicCalls' = acquireLockCalls(Lock(next), proc[s.lock])
                    ELSE /\ sections' = Replace(s, t)
                         /\ UNCHANGED atomicCalls
       /\ UNCHANGED <<callVars, pc, locks, rows, id, nextId, atomicErrCalls, threw, faults>>

----------------------------------------------------------------------------
\* the steps in which no adapter operation fails
NextOK ==
    \/ \E n \in Names, p \in Procs : transaction(n, p) /\ UNCHANGED facadeVars
    \/ \E c \in Calls : afterCreatingTransaction(c, FALSE) /\ UNCHANGED facadeVars
    \/ \E c \in Calls : afterLookingUpTransactions(c) /\ UNCHANGED facadeVars
    \/ \E s \in sections : unlock(s, FALSE) /\ UNCHANGED facadeVars
    \/ \E s \in sections : afterLookingUpTransactionsRelease(s, FALSE) /\ UNCHANGED facadeVars
    \/ \E s \in sections : afterLockReleased(s) /\ UNCHANGED facadeVars

\* adapter operations may fail
Next ==
    \/ \E n \in Names, p \in Procs : transaction(n, p) /\ UNCHANGED facadeVars
    \/ \E n \in Names, p \in Procs : transactionCreateFails(n, p) /\ UNCHANGED facadeVars
    \/ \E c \in Calls, f \in BOOLEAN : afterCreatingTransaction(c, f) /\ UNCHANGED facadeVars
    \/ \E c \in Calls : afterLookingUpTransactions(c) /\ UNCHANGED facadeVars
    \/ \E c \in Calls : throwingUnlock(c) /\ UNCHANGED facadeVars
    \/ \E s \in sections, f \in BOOLEAN : unlock(s, f) /\ UNCHANGED facadeVars
    \/ \E s \in sections, f \in BOOLEAN : afterLookingUpTransactionsRelease(s, f) /\ UNCHANGED facadeVars
    \/ \E s \in sections : afterLockReleased(s) /\ UNCHANGED facadeVars

Spec == Init /\ [][Next]_vars

\* every pending adapter operation completes, every callback runs and every
\* holder calls its unlock
FairSpec == Init /\ [][Next]_vars /\ WF_vars(NextOK)

----------------------------------------------------------------------------
\* Criteria: the values normalizeCriteria sees, tagged with their type

Undefined == [t |-> "undefined"]
Null == [t |-> "null"]
NaN == [t |-> "NaN"]
Num(n) == [t |-> "number", n |-> n]
Str(s) == [t |-> "string", s |-> s]
Obj(m) == [t |-> "object", m |-> m]

\* what a thrown Error leaves instead of a result
Thrown == [t |-> "throw"]

\* a key that an object does not have
Absent == [t |-> "absent"]

\* the object with the keys of opts that are not Absent
MkObj(opts) ==
    Obj([k \in {j \in DOMAIN opts : opts[j] # Absent} |-> opts[k]])

\* _.isString, _.isObject, and truthiness
IsString(v) == v.t = "string"
IsObject(v) == v.t = "object"
Truthy(v) ==
    CASE v.t = "undefined" -> FALSE
      [] v.t = "null"      -> FALSE
      [] v.t = "NaN"       -> FALSE
      [] v.t = "number"    -> v.n # 0
      [] v.t = "string"    -> v.s # ""
      [] OTHER             -> TRUE

\* the strings that parse as a number
NumericStrings == [s \in {"5", "0", "-1"} |-> CASE s = "5" -> 5 [] s = "0" -> 0 [] s = "-1" -> 0 - 1]

\* unary plus
ToNumber(v) ==
    CASE v.t = "number"    -> v
      [] v.t = "null"      -> Num(0)
      [] v.t = "string"    -> IF v.s \in DOMAIN NumericStrings
                                 THEN Num(NumericStrings[v.s])
                                 ELSE IF v.s = "" THEN Num(0) ELSE NaN
      [] OTHER             -> NaN

\* '' + v for the values that reach the error message
Text(v) ==
    CASE v.t = "string" -> v.s
      [] v.t = "number" -> ToString(v.n)
      [] OTHER          -> v.t

\* criteria[key]
Get(o, key) ==
    IF IsObject(o) /\ key \in DOMAIN o.m THEN o.m[key] ELSE Undefined

\* criteria[key] = val
Put(o, key, val) ==
    Obj([k \in DOMAIN o.m \cup {key} |-> IF k = key THEN val ELSE o.m[k]])

\* _.each(criteria, ...): delete the keys whose value is undefined
DeleteUndefined(criteria) ==
    IF IsObject(criteria)
        THEN Obj([k \in {j \in DOMAIN criteria.m : criteria.m[j] # Undefined}
                     |-> criteria.m[k]])
        ELSE criteria

\* (_.isFinite(criteria) || _.isString(criteria)) && +criteria > 0
IsId(criteria) ==
    /\ criteria.t \in {"number", "string"}
    /\ ToNumber(criteria).t = "number"
    /\ ToNumber(criteria).n > 0

\* !criteria.where && !criteria.limit && !criteria.skip && !criteria.offset
\* && !criteria.order
NoOperationalKeys(criteria) ==
    \A key \in {"where", "limit", "skip", "offset", "order"} :
        ~Truthy(Get(criteria, key))

\* the loop over criteria.where: a value that parses as a nonzero number
\* becomes that number
ParseWhere(where) ==
    IF IsObject(where)
        THEN Obj([k \in DOMAIN where.m |->
                    LET n == ToNumber(where.m[k])
                    IN  IF n.t = "number" /\ n.n * n.n > 0 THEN n ELSE where.m[k]])
        ELSE where

\* the sort strings and what _.str.words and the direction test leave of them
SortStrings ==
    [s \in {"name", "name desc", "name up"} |->
        CASE s = "name"      -> Obj([k \in {"name"} |-> Num(1)])
          [] s = "name desc" -> Obj([k \in {"name"} |-> Num(0 - 1)])
          [] s = "name up"   -> Thrown]

\* if (criteria.sort) { ... }
NormalizeSort(criteria) ==
    LET sort == Get(criteria, "sort")
    IN  IF ~Truthy(sort) THEN criteria
        ELSE IF IsString(sort)
            THEN IF SortStrings[sort.s] = Thrown THEN Thrown
                 ELSE Put(criteria, "sort", SortStrings[sort.s])
        ELSE IF ~IsObject(sort) THEN Thrown
        ELSE criteria

\* normalizeCriteria
normalizeCriteria(criteria0) ==
    IF ~Truthy(criteria0) THEN Obj([k \in {"where"} |-> Null])
    ELSE LET c1 == DeleteUndefined(criteria0)
             c2 == IF IsId(c1) THEN Obj([k \in {"id"} |-> ToNumber(c1)]) ELSE c1
         IN  IF ~IsObject(c2) THEN Str("Invalid options/criteria :: " \o Text(c2))
             ELSE LET c3 == IF NoOperationalKeys(c2)
                                THEN Obj([k \in {"where"} |-> c2]) ELSE c2
                      c4 == IF "where" \in DOMAIN c3.m
                                THEN Put(c3, "where", ParseWhere(c3.m["where"]))
                                ELSE c3
                  IN  NormalizeSort(c4)

\* the criteria a caller passes that are not a mapping
ScalarCriteria ==
    {Undefined, Null, Num(0), Num(5), Num(0 - 1), Str("5"), Str("0"), Str("-1"), Str("abc")}

WhereOpts ==
    {Absent, Undefined, Null, Num(0), Obj(<<>>),
     Obj([k \in {"name"} |-> Str("5")]), Obj([k \in {"name"} |-> Str("a")])}
LimitOpts == {Absent, Null, Num(0), Num(10)}
SkipOpts == {Absent, Num(0), Num(2)}
NameOpts == {Absent, Undefined, Str("5"), Str("a"), Num(0 - 1)}
SortOpts == {Absent, Str("name desc"), Str("name up"), Obj([k \in {"name"} |-> Num(1)])}

\* the criteria a caller passes that are a mapping
MappingCriteria ==
    {MkObj([where |-> w, limit |-> l, skip |-> k, name |-> n, sort |-> o]) :
        w \in WhereOpts, l \in LimitOpts, k \in SkipOpts, n \in NameOpts, o \in SortOpts}

Criteria == ScalarCriteria \cup MappingCriteria

\* has normalizeCriteria accepted the criteria
Accepted(result) == IsObject(result)

NormInit ==
    /\ LockInit
    /\ op = Idle
    /\ alt = Idle
    /\ norm \in {[step |-> "input", c |-> c] : c \in Criteria}
    /\ work = Idle
    /\ ddl = Idle

\* normalizeCriteria(c)
normalize ==
    /\ norm.step = "input"
    /\ norm' = [step |-> "once", c |-> norm.c, once |-> normalizeCriteria(norm.c)]
    /\ UNCHANGED <<vars, op, alt, work, ddl>>

\* normalizeCriteria(normalizeCriteria(c))
normalizeAgain ==
    /\ norm.step = "once"
    /\ Accepted(norm.once)
    /\ norm' = [step |-> "twice", c |-> norm.c, once |-> norm.once,
                twice |-> normalizeCriteria(norm.once)]
    /\ UNCHANGED <<vars, op, alt, work, ddl>>

NormNext ==
    \/ normalize
    \/ normalizeAgain

allVars == <<vars, facadeVars>>

NormSpec == NormInit /\ [][NormNext]_allVars

----------------------------------------------------------------------------
\* Facade operations: one call, the adapter methods it reaches and the
\* callbacks it makes

\* number of models the adapter's find returns at most
MaxModels == 2

\* the methods an adapter may implement
AdapterMethods == {"create", "find", "count", "update", "destroy", "findOrCreate"}

\* the facade operations
Operations == {"create", "findAll", "find", "count", "update", "destroy", "findOrCreate"}

\* the criteria the operations are called with
OpCriteria == {Undefined, Null, Num(5), Str("abc"), Obj([k \in {"name"} |-> Str("a")])}

NoError == "null"

\* the models of a find result: records 1..n, undefined after an error
Models(n) == [t |-> "models", list |-> [i \in 1..n |-> i]]

\* cb(err, val): the caller's callback
Callback(o, err, val) ==
    [o EXCEPT !.step = "done", !.cbs = Append(@, [err |-> err, val |-> val])]

\* models.length of something that is not a list of models
TypeError(o) == [o EXCEPT !.step = "done", !.thrown = TRUE]

\* the function find hands to findAll, taking the first of many
findCallback_first(o, err, models) ==
    IF models.t # "models" THEN TypeError(o)
    ELSE IF Len(models.list) < 1 THEN Callback(o, NoError, Undefined)
    ELSE Callback(o, NoError, Num(models.list[1]))

\* the function find hands to findAll
findCallback(o, err, models) ==
    IF models.t # "models" THEN TypeError(o)
    ELSE IF Len(models.list) < 1 THEN Callback(o, NoError, Undefined)
    ELSE IF Len(models.list) > 1 THEN Callback(o, "More than one returned!", Undefined)
    ELSE Callback(o, NoError, Num(models.list[1]))

\* the function count hands to findAll
countCallback(o, err, models) ==
    IF models.t # "models" THEN TypeError(o)
    ELSE Callback(o, err, Num(Len(models.list)))

\* then(err, val) where `then` is the caller's cb or the function that find
\* or count handed to findAll
Deliver(o, then, err, val) ==
    CASE then = "cb"    -> Callback(o, err, val)
      [] then = "find"  -> findCallback(o, err, val)
      [] then = "count" -> countCallback(o, err, val)

\* adapter[fn](collectionName, criteria, then)
Forward(o, fn, criteria, then) ==
    [o EXCEPT !.step = "adapter", !.then = then,
              !.adapterCalls = Append(@, [fn |-> fn, criteria |-> criteria])]

\* this.findAll(collectionName, criteria, then)
FindAll(o, criteria, then) ==
    IF "find" \notin o.has
        THEN Deliver(o, then, "No find() method defined in adapter!", Undefined)
    ELSE LET c == normalizeCriteria(criteria)
         IN  IF IsString(c) THEN Deliver(o, then, c.s, Undefined)
             ELSE Forward(o, "find", c, then)

\* update / destroy: check the method, normalize, forward
Mutate(o, fn) ==
    IF fn \notin o.has
        THEN Deliver(o, "cb", "No method defined in adapter!", Undefined)
    ELSE LET c == normalizeCriteria(o.criteria)
         IN  IF IsString(c) THEN Deliver(o, "cb", c.s, Undefined)
             ELSE Forward(o, fn, c, "cb")

OpInit ==
    /\ LockInit
    /\ norm = Idle
    /\ alt = Idle
    /\ op \in {[step |-> "call", method |-> m, has |-> h, criteria |-> c,
                then |-> "cb", adapterCalls |-> <<>>, reply |-> Undefined,
                cbs |-> <<>>, thrown |-> FALSE] :
                    m \in Operations, h \in SUBSET AdapterMethods, c \in OpCriteria}
    /\ work = Idle
    /\ ddl = Idle

create ==
    /\ op.step = "call"
    /\ op.method = "create"
    /\ op' = IF "create" \notin op.has
                THEN Deliver(op, "cb", "No create() method defined in adapter!", Undefined)
                ELSE Forward(op, "create", Undefined, "cb")
    /\ UNCHANGED <<vars, norm, alt, work, ddl>>

findAll ==
    /\ op.step = "call"
    /\ op.method = "findAll"
    /\ op' = FindAll(op, op.criteria, "cb")
    /\ UNCHANGED <<vars, norm, alt, work, ddl>>

find ==
    /\ op.step = "call"
    /\ op.method = "find"
    /\ op' = FindAll(op, IF ~Truthy(op.criteria)
                            THEN Obj([k \in {"limit"} |-> Num(1)])
                            ELSE op.criteria, "find")
    /\ UNCHANGED <<vars, norm, alt, work, ddl>>

count ==
    /\ op.step = "call"
    /\ op.method = "count"
    /\ LET criteria == normalizeCriteria(op.criteria)
       IN  op' = IF "count" \notin op.has
                    THEN FindAll(op, criteria, "count")
                    ELSE Forward(op, "count", criteria, "cb")
    /\ UNCHANGED <<vars, norm, alt, work, ddl>>

update ==
    /\ op.step = "call"
    /\ op.method = "update"
    /\ op' = Mutate(op, "update")
    /\ UNCHANGED <<vars, norm, alt, work, ddl>>

destroy ==
    /\ op.step = "call"
    /\ op.method = "destroy"
    /\ op' = Mutate(op, "destroy")
    /\ UNCHANGED <<vars, norm, alt, work, ddl>>

\* findOrCreate up to the adapter's own findOrCreate or the transaction
findOrCreate ==
    /\ op.step = "call"
    /\ op.method = "findOrCreate"
    /\ LET criteria == normalizeCriteria(op.criteria)
       IN  op' = IF IsString(criteria) THEN Deliver(op, "cb", criteria.s, Undefined)
                 ELSE IF "findOrCreate" \in op.has
                     THEN Forward(op, "findOrCreate", criteria, "cb")
                 ELSE [op EXCEPT !.step = "transaction"]
    /\ UNCHANGED <<vars, norm, alt, work, ddl>>

\* the adapter calls back with an error
adapterFails ==
    /\ op.step = "adapter"
    /\ op' = Deliver([op EXCEPT !.reply = [t |-> "error"]], op.then,
                     "adapter error", Undefined)
    /\ UNCHANGED <<vars, norm, alt, work, ddl>>

\* the adapter calls back with its result: n models from find
adapterReplies(n) ==
    /\ op.step = "adapter"
    /\ LET fn == op.adapterCalls[Len(op.adapterCalls)].fn
       IN  IF fn = "find"
              THEN op' = Deliver([op EXCEPT !.reply = Models(n)], op.then,
                                 NoError, Models(n))
              ELSE /\ n = 0
                   /\ op' = Deliver([op EXCEPT !.reply = [t |-> "result"]], op.then,
                                    NoError, [t |-> "result"])
    /\ UNCHANGED <<vars, norm, alt, work, ddl>>

OpNext ==
    \/ create
    \/ findAll
    \/ find
    \/ count
    \/ update
    \/ destroy
    \/ findOrCreate
    \/ adapterFails
    \/ \E n \in 0..MaxModels : adapterReplies(n)

OpSpec == OpInit /\ [][OpNext]_allVars

----------------------------------------------------------------------------
\* alter: the schema diff and its two async.forEach phases.  The adapter
\* applies an addAttribute / removeAttribute when it calls back.

AttrNames == {"a", "b", "c"}
AttrDefs == {"string", "int"}

\* the attribute sets: a definition for some of the names
Schemas == UNION {[D -> AttrDefs] : D \in SUBSET AttrNames}

\* what the adapter offers: its own alter, the two column methods, or neither
AlterModes == {"alter", "columns", "none"}

\* checkAttribute: the attributes of the new definition that do not exist
checkAttribute(attributes, originalAttributes) ==
    [n \in {k \in DOMAIN attributes : k \notin DOMAIN originalAttributes}
        |-> attributes[n]]

\* !_.isEqual(attributes[attrName], attribute)
Differs(attributes, attrName, attribute) ==
    attrName \notin DOMAIN attributes \/ attributes[attrName] # attribute

\* newAttributes after the loop over originalAttributes
newAttributesOf(attributes, originalAttributes) ==
    LET fresh == checkAttribute(attributes, originalAttributes)
        again == {n \in DOMAIN originalAttributes :
                      Differs(attributes, n, originalAttributes[n])}
    IN  [n \in DOMAIN fresh \cup again |->
            IF n \in again THEN originalAttributes[n] ELSE fresh[n]]

\* deprecatedAttributes after the loop over originalAttributes
deprecatedAttributesOf(attributes, originalAttributes) ==
    [n \in {k \in DOMAIN originalAttributes :
                k \notin DOMAIN attributes
                \/ Differs(attributes, k, originalAttributes[k])}
        |-> originalAttributes[n]]

\* the calls one async.forEach makes: one per key
ForEachCalls(attrs) == {<<n, attrs[n]>> : n \in DOMAIN attrs}

\* cb(err) of alter
AlterCallback(a, err) == [a EXCEPT !.step = "done", !.cbs = Append(@, err)]

\* the second async.forEach: removeAttribute for every deprecated attribute,
\* cb at once when there is none
startRemoving(a) ==
    IF DOMAIN a.deprecatedAttributes = {}
        THEN AlterCallback(a, NoError)
        ELSE [a EXCEPT !.step = "removing",
                       !.removeCalls = ForEachCalls(a.deprecatedAttributes),
                       !.removesPending = DOMAIN a.deprecatedAttributes]

\* the first async.forEach: addAttribute for every new attribute, on to the
\* removes at once when there is none
startAdding(a) ==
    IF DOMAIN a.newAttributes = {}
        THEN startRemoving(a)
        ELSE [a EXCEPT !.step = "adding",
                       !.addCalls = ForEachCalls(a.newAttributes),
                       !.addsPending = DOMAIN a.newAttributes]

AlterInit ==
    /\ LockInit
    /\ norm = Idle
    /\ op = Idle
    /\ alt \in {[step |-> "call", mode |-> m, schema |-> cur, attributes |-> target,
                 originalAttributes |-> <<>>, described |-> FALSE,
                 newAttributes |-> <<>>, deprecatedAttributes |-> <<>>,
                 addCalls |-> {}, addsPending |-> {}, addsFailed |-> {},
                 removeCalls |-> {}, removesPending |-> {}, removesFailed |-> {},
                 cbs |-> <<>>, thrown |-> FALSE] :
                     m \in AlterModes, cur \in Schemas, target \in Schemas}
    /\ work = Idle
    /\ ddl = Idle

\* alter: delegate, or describe the collection, or do nothing
alter ==
    /\ alt.step = "call"
    /\ alt' = CASE alt.mode = "alter"   -> [alt EXCEPT !.step = "adapter"]
                [] alt.mode = "columns" -> [alt EXCEPT !.step = "describe"]
                [] alt.mode = "none"    -> AlterCallback(alt, NoError)
    /\ UNCHANGED <<vars, norm, op, work, ddl>>

\* the adapter's own alter calls back
adapterAlter(err) ==
    /\ alt.step = "adapter"
    /\ alt' = AlterCallback(IF err = NoError
                               THEN [alt EXCEPT !.schema = alt.attributes]
                               ELSE alt, err)
    /\ UNCHANGED <<vars, norm, op, work, ddl>>

\* afterDescribe: an error reaches done, which is not defined; otherwise
\* diff the attributes and start the adds
afterDescribe(describeFails) ==
    /\ alt.step = "describe"
    /\ alt' = IF describeFails
                 THEN [alt EXCEPT !.step = "done", !.thrown = TRUE]
                 ELSE startAdding(
                        [alt EXCEPT
                           !.originalAttributes = alt.schema,
                           !.described = TRUE,
                           !.newAttributes = newAttributesOf(alt.attributes, alt.schema),
                           !.deprecatedAttributes =
                               deprecatedAttributesOf(alt.attributes, alt.schema)])
    /\ UNCHANGED <<vars, norm, op, work, ddl>>

\* the callback of the first forEach starting the removes at the first
\* addAttribute that calls back
addAttributeCallback_first(n, fails) ==
    /\ alt.step = "adding"
    /\ n \in alt.addsPending
    /\ LET a == [alt EXCEPT !.addsPending = @ \ {n}]
       IN  alt' = IF fails
                     THEN [a EXCEPT !.addsFailed = @ \cup {n}, !.thrown = TRUE]
                     ELSE startRemoving(
                            [a EXCEPT !.schema =
                                [k \in DOMAIN alt.schema \cup {n} |->
                                    IF k = n THEN alt.newAttributes[n]
                                    ELSE alt.schema[k]]])
    /\ UNCHANGED <<vars, norm, op, work, ddl>>

\* an addAttribute calls back: the first error is thrown, the last success
\* starts the removes
addAttributeCallback(n, fails) ==
    /\ alt.step = "adding"
    /\ n \in alt.addsPending
    /\ LET a == [alt EXCEPT !.addsPending = @ \ {n}]
       IN  alt' = IF fails
                     THEN IF alt.addsFailed = {}
                             THEN [a EXCEPT !.addsFailed = @ \cup {n}, !.thrown = TRUE]
                             ELSE [a EXCEPT !.addsFailed = @ \cup {n}]
                     ELSE LET b == [a EXCEPT !.schema =
                                      [k \in DOMAIN alt.schema \cup {n} |->
                                          IF k = n THEN alt.newAttributes[n]
                                          ELSE alt.schema[k]]]
                          IN  IF b.addsPending = {} /\ b.addsFailed = {}
                                 THEN startRemoving(b) ELSE b
    /\ UNCHANGED <<vars, norm, op, work, ddl>>

\* a removeAttribute calls back: the first error goes to cb at once, the
\* last success calls cb
removeAttributeCallback(n, fails) ==
    /\ alt.removeCalls # {}
    /\ n \in alt.removesPending
    /\ LET a == [alt EXCEPT !.removesPending = @ \ {n}]
       IN  alt' = IF fails
                     THEN IF alt.removesFailed = {}
                             THEN AlterCallback([a EXCEPT !.removesFailed = @ \cup {n}],
                                                "adapter error")
                             ELSE [a EXCEPT !.removesFailed = @ \cup {n}]
                     ELSE LET b == [a EXCEPT !.schema =
                                      [k \in DOMAIN alt.schema \ {n} |-> alt.schema[k]]]
                          IN  IF b.removesPending = {} /\ b.removesFailed = {}
                                 THEN AlterCallback(b, NoError) ELSE b
    /\ UNCHANGED <<vars, norm, op, work, ddl>>

AlterNext ==
    \/ alter
    \/ \E err \in {NoError, "adapter error"} : adapterAlter(err)
    \/ \E f \in BOOLEAN : afterDescribe(f)
    \/ \E n \in AttrNames, f \in BOOLEAN : addAttributeCallback(n, f)
    \/ \E n \in AttrNames, f \in BOOLEAN : removeAttributeCallback(n, f)

AlterSpec == AlterInit /\ [][AlterNext]_allVars

----------------------------------------------------------------------------
\* Compound operations: the default findOrCreate and createEach of one
\* collection, each the atomicLogic of a transaction

\* number of elements of valuesList
BatchSize == 2

Elements == 1..BatchSize

\* the names of the transactions of findOrCreate and of createEach
findOrCreateName == "X"
createEachName == "Y"

\* the invocations of atomicLogic: the k-th atomicLogic(null, unlock) of a
\* lock, and with k = 0 its atomicLogic(err, thrower)
Invocations ==
    {[lock |-> s.lock, k |-> s.k] : s \in sections}
        \cup {[lock |-> c, k |-> 0] : c \in {d \in Calls : atomicErrCalls[d] > 0}}

RunOf(inv) == {r \in work.runs : r.lock = inv.lock /\ r.k = inv.k}

\* what an invocation of atomicLogic has done so far; err is not looked at
NewRun(inv, step) ==
    [ lock      |-> inv.lock,
      k         |-> inv.k,
      step      |-> step,
      log       |-> <<>>,
      pending   |-> {},
      doneCalls |-> 0,
      failed    |-> FALSE ]

\* adapter.create for element i, and the callback of that create
Issued(i) == [e |-> "create", i |-> i, err |-> FALSE]
CalledBack(i, err) == [e |-> "callback", i |-> i, err |-> err]

SetRun(r, t) == [work EXCEPT !.runs = (@ \ {r}) \cup {t}]

\* done: the unlock of the section, or the unlock that throws
done(inv, findAllFails) ==
    IF inv.k = 0
        THEN ~findAllFails /\ throwingUnlock(inv.lock)
        ELSE \E s \in sections :
                 s.lock = inv.lock /\ s.k = inv.k /\ unlock(s, findAllFails)

\* no compound operation has run yet
TxInit ==
    /\ LockInit
    /\ norm = Idle
    /\ op = Idle
    /\ alt = Idle
    /\ work = [step |-> "open", runs |-> {}, records |-> 0, failures |-> 0]
    /\ ddl = Idle

\* atomicLogic of findOrCreate: self.find calls the adapter's find
findOrCreateLogic(inv) ==
    /\ RunOf(inv) = {}
    /\ name[inv.lock] = findOrCreateName
    /\ work' = [work EXCEPT !.runs = @ \cup {NewRun(inv, "find")}]
    /\ UNCHANGED <<vars, norm, op, alt, ddl>>

\* the callback of find and the function findOrCreate gave to find: the
\* adapter read the matching records or failed
afterFind(inv, findFails, findAllFails) ==
    \E r \in RunOf(inv) :
        /\ r.step = "find"
        /\ findFails => work.failures < MaxFaults
        /\ IF findFails
              THEN /\ ~findAllFails
                   /\ work' = [SetRun(r, [r EXCEPT !.step = "TypeError"])
                                   EXCEPT !.failures = @ + 1]
                   /\ UNCHANGED vars
              ELSE IF work.records = 0
              THEN /\ ~findAllFails
                   /\ work' = SetRun(r, [r EXCEPT !.step = "create",
                                                  !.log = Append(@, Issued(1))])
                   /\ UNCHANGED vars
              ELSE /\ work' = SetRun(r, [r EXCEPT !.step = "done", !.doneCalls = @ + 1,
                                                  !.failed = work.records > 1])
                   /\ done(inv, findAllFails)
        /\ UNCHANGED <<norm, op, alt, ddl>>

\* done as the callback of create: the adapter wrote the record or failed
afterCreate(inv, createFails, findAllFails) ==
    \E r \in RunOf(inv) :
        /\ r.step = "create"
        /\ createFails => work.failures < MaxFaults
        /\ work' = [SetRun(r, [r EXCEPT !.step = "done", !.doneCalls = @ + 1,
                                        !.failed = createFails,
                                        !.log = Append(@, CalledBack(1, createFails))])
                        EXCEPT !.records = IF createFails THEN @ ELSE @ + 1,
                               !.failures = IF createFails THEN @ + 1 ELSE @]
        /\ done(inv, findAllFails)
        /\ UNCHANGED <<norm, op, alt, ddl>>

\* async.forEach: the iterator is called for every element, whatever the
\* creates before it reported
RECURSIVE forEachLog(_, _)
forEachLog(i, outcome) ==
    IF i > BatchSize THEN <<>>
    ELSE (IF outcome[i] = "error" THEN <<Issued(i), CalledBack(i, TRUE)>>
                                  ELSE <<Issued(i)>>) \o forEachLog(i + 1, outcome)

\* atomicLogic of createEach: a create for every element of valuesList; an
\* adapter may report an error before its create returns
createEachLogic(inv, outcome, findAllFails) ==
    LET errors == {i \in Elements : outcome[i] = "error"}
        r == [NewRun(inv, "forEach") EXCEPT
                 !.log = forEachLog(1, outcome),
                 !.pending = Elements \ errors,
                 !.doneCalls = IF errors # {} THEN 1 ELSE 0,
                 !.failed = errors # {}]
    IN  /\ RunOf(inv) = {}
        /\ name[inv.lock] = createEachName
        /\ work.failures + Cardinality(errors) <= MaxFaults
        /\ work' = [work EXCEPT !.runs = @ \cup {r},
                                !.failures = @ + Cardinality(errors)]
        /\ IF errors # {}
              THEN done(inv, findAllFails)
              ELSE ~findAllFails /\ UNCHANGED vars
        /\ UNCHANGED <<norm, op, alt, ddl>>

\* the callback of one create of createEach: async.forEach calls done with
\* the first error, or after the last success
createCallback(inv, i, createFails, findAllFails) ==
    \E r \in RunOf(inv) :
        /\ r.step = "forEach"
        /\ i \in r.pending
        /\ createFails => work.failures < MaxFaults
        /\ LET calls_done == /\ r.doneCalls = 0
                             /\ createFails \/ r.pending = {i}
           IN  /\ work' = [SetRun(r, [r EXCEPT
                                !.pending = @ \ {i},
                                !.log = Append(@, CalledBack(i, createFails)),
                                !.doneCalls = IF calls_done THEN 1 ELSE @,
                                !.failed = @ \/ createFails])
                              EXCEPT !.failures = IF createFails THEN @ + 1 ELSE @]
               /\ IF calls_done
                     THEN done(inv, findAllFails)
                     ELSE ~findAllFails /\ UNCHANGED vars
        /\ UNCHANGED <<norm, op, alt, ddl>>

\* the lock manager in one process, with every unlock called by a compound
\* operation
TxNext ==
    \/ \E n \in Names : transaction(n, "P1") /\ UNCHANGED facadeVars
    \/ \E n \in Names : transactionCreateFails(n, "P1") /\ UNCHANGED facadeVars
    \/ \E c \in Calls, f \in BOOLEAN : afterCreatingTransaction(c, f) /\ UNCHANGED facadeVars
    \/ \E c \in Calls : afterLookingUpTransactions(c) /\ UNCHANGED facadeVars
    \/ \E s \in sections, f \in BOOLEAN : afterLookingUpTransactionsRelease(s, f) /\ UNCHANGED facadeVars
    \/ \E s \in sections : afterLockReleased(s) /\ UNCHANGED facadeVars
    \/ \E inv \in Invocations : findOrCreateLogic(inv)
    \/ \E inv \in Invocations, e, f \in BOOLEAN : afterFind(inv, e, f)
    \/ \E inv \in Invocations, e, f \in BOOLEAN : afterCreate(inv, e, f)
    \/ \E inv \in Invocations, outcome \in [Elements -> {"pending", "error"}], f \in BOOLEAN :
           createEachLogic(inv, outcome, f)
    \/ \E inv \in Invocations, i \in Elements, e, f \in BOOLEAN : createCallback(inv, i, e, f)

TxSpec == TxInit /\ [][TxNext]_allVars

----------------------------------------------------------------------------
\* define: describe the collection, then forward to the adapter's define

CollectionNames == {"user", "pet"}
DdlMethods == {"describe", "define"}

\* what describe can report for a collection: nothing, or its attributes
ExistingAttributes ==
    {Undefined, Null} \cup {Obj(m) : m \in {x \in Schemas : DOMAIN x \subseteq {"a"}}}

\* require('./augmentAttributes')(attributes, config): the marshalled form
augmentAttributes(attributes) == [augmented |-> attributes]

\* cb(err, val): the callback of the caller of define
DdlCallback(d, err, val) ==
    [d EXCEPT !.step = "done", !.cbs = Append(@, [err |-> err, val |-> val])]

\* the function define hands to describe, forwarding to the adapter's define
\* for a collection that exists as well
defineAfterDescribe_noReturn(d0, err, existingAttributes) ==
    LET d == [d0 EXCEPT !.described = [err |-> err, existing |-> existingAttributes]]
        e == IF Truthy(existingAttributes)
                THEN [d EXCEPT !.cbs = Append(@,
                         [err |-> "Trying to define a collection (" \o d.collectionName
                                      \o ") which already exists.",
                          val |-> Undefined])]
                ELSE d
    IN  IF err # NoError THEN DdlCallback(d, err, Obj(d.attributes))
        ELSE IF "define" \in d.has
            THEN [e EXCEPT !.step = "define", !.adapterCalls = Append(@, "define")]
        ELSE DdlCallback(d, NoError, Undefined)

\* the function define hands to describe
defineAfterDescribe(d0, err, existingAttributes) ==
    LET d == [d0 EXCEPT !.described = [err |-> err, existing |-> existingAttributes]]
    IN  IF err # NoError THEN DdlCallback(d, err, Obj(d.attributes))
        ELSE IF Truthy(existingAttributes)
            THEN DdlCallback(d, "Trying to define a collection (" \o d.collectionName
                                    \o ") which already exists.", Undefined)
        ELSE IF "define" \in d.has
            THEN [d EXCEPT !.step = "define", !.adapterCalls = Append(@, "define")]
        ELSE DdlCallback(d, NoError, Undefined)

NotDescribed == [err |-> "none", existing |-> Undefined]

DdlInit ==
    /\ LockInit
    /\ norm = Idle
    /\ op = Idle
    /\ alt = Idle
    /\ work = Idle
    /\ ddl \in {[step |-> "call", collectionName |-> n, has |-> h,
                 definition |-> a, attributes |-> <<>>, adapterCalls |-> <<>>,
                 described |-> NotDescribed, cbs |-> <<>>] :
                     n \in CollectionNames, h \in SUBSET DdlMethods,
                     a \in {Undefined, Obj([a |-> "string"])}}

\* define: marshal definition.attributes || {} and call describe, which
\* calls the adapter's describe or calls back with nothing
define ==
    /\ ddl.step = "call"
    /\ LET attributes == IF Truthy(ddl.definition) THEN ddl.definition.m ELSE <<>>
           d == [ddl EXCEPT !.attributes = augmentAttributes(attributes)]
       IN  ddl' = IF "describe" \in ddl.has
                     THEN [d EXCEPT !.step = "describe",
                                    !.adapterCalls = Append(@, "describe")]
                     ELSE defineAfterDescribe(d, NoError, Undefined)
    /\ UNCHANGED <<vars, norm, op, alt, work>>

\* the adapter's describe calls back
adapterDescribes(err, existingAttributes) ==
    /\ ddl.step = "describe"
    /\ ddl' = defineAfterDescribe(ddl, err, existingAttributes)
    /\ UNCHANGED <<vars, norm, op, alt, work>>

\* the adapter's define calls back: cb is its callback
adapterDefines(err) ==
    /\ ddl.step = "define"
    /\ ddl' = DdlCallback(ddl, err, Undefined)
    /\ UNCHANGED <<vars, norm, op, alt, work>>

DdlNext ==
    \/ define
    \/ \E err \in {NoError, "adapter error"}, existing \in ExistingAttributes :
           adapterDescribes(err, existing)
    \/ \E err \in {NoError, "adapter error"} : adapterDefines(err)

DdlSpec == DdlInit /\ [][DdlNext]_allVars

----------------------------------------------------------------------------
\* Properties

Running(s) == s.stage = "running"

\* no adapter operation has failed so far
NoFault == faults = 0

SameName(a, b) == name[a] = name[b]

\* a has an entry that is older than the entry of b, under the same name
Older(a, b) ==
    /\ a # b
    /\ SameName(a, b)
    /\ id[a] # 0
    /\ id[b] # 0
    /\ id[a] < id[b]

\* C1: the critical sections of two transaction calls with the same name
\* never overlap (as long as no adapter operation has failed)
C1_MutualExclusion ==
    NoFault =>
        \A s \in sections, t \in sections :
            (Running(s) /\ Running(t) /\ SameName(s.lock, t.lock)) => s.lock = t.lock

\* C2: for every transaction call atomicLogic is invoked at most once and
\* afterUnlock is invoked at most once (as long as no adapter operation has
\* failed)
C2_AtMostOnce ==
    NoFault =>
        \A c \in Calls :
            /\ atomicCalls[c] + atomicErrCalls[c] <= 1
            /\ afterUnlockCalls[c] <= 1

\* C3: locks of one name are acquired in the ascending order of their ids:
\* when atomicLogic of a call has been invoked, atomicLogic of every call
\* with an older entry of the same name was invoked before
C3_FIFO ==
    \A a \in Calls, b \in Calls :
        (Older(a, b) /\ atomicCalls[b] > 0) => atomicCalls[a] > 0

C3_Witness ==
    /\ calls = NCalls
    /\ \A c \in Calls : name[c] = "X" /\ id[c] # 0 /\ atomicCalls[c] > 0
    /\ \E s \in sections : Running(s) /\ s.lock = NCalls

\* every call so far was made in the one process P1
SingleProcess == \A d \in Calls : proc[d] = "P1"

\* C4: when every adapter operation succeeds and every holder calls unlock,
\* every transaction call of a single process eventually has its atomicLogic
\* invoked
C4_NoStarvation ==
    \A c \in Calls :
        (pc[c] # "idle" /\ SingleProcess /\ NoFault)
            ~> (atomicCalls[c] > 0 \/ ~SingleProcess \/ ~NoFault)

\* C5: a call that is next in line behind a holder of another process has
\* its atomicLogic invoked after that holder has released (when no adapter
\* operation fails)
C5_CrossProcessProgress ==
    \A c \in Calls :
        (/\ NoFault
         /\ \E s \in sections : /\ s.stage = "released"
                                /\ s.nextInLine = {c}
                                /\ proc[s.lock] # proc[c])
            ~> (atomicCalls[c] > 0 \/ ~NoFault)

\* C6: only entries of the same name delay a call or are promoted by a
\* release: a scan that finds no other entry of its name acquires at once,
\* and a release promotes an entry of its own name only
C6_IndependentNames ==
    /\ [](\A s \in sections : \A e \in s.promoted : SameName(e, s.lock))
    /\ [][\A c \in Calls :
            ( /\ pc[c] = "found"
              /\ pc'[c] # "found"
              /\ ~ \E e \in locks[c] : e # c /\ SameName(e, c) )
            => atomicCalls'[c] = atomicCalls[c] + 1]_vars

C6_Witness ==
    \E c \in Calls, s \in sections :
        /\ pc[c] = "acquired"
        /\ atomicCalls[c] = 1
        /\ Running(s)
        /\ ~SameName(s.lock, c)
        /\ id[s.lock] < id[c]
        /\ s.lock \in rows

\* C7: when the atomicLogic of a call is invoked, the afterUnlock of every
\* call with an older entry of the same name has been invoked (as long as no
\* adapter operation has failed)
C7_AfterUnlockBeforeNext ==
    NoFault =>
        \A a \in Calls, b \in Calls :
            (Older(a, b) /\ atomicCalls[b] > 0) => afterUnlockCalls[a] > 0

\* C8: per name at most one critical section is running, and its entry is
\* in the transaction collection with the smallest id of that name (as long
\* as no adapter operation has failed)
C8_OneHolderSmallestId ==
    NoFault =>
        \A s \in sections :
            Running(s) =>
                /\ s.lock \in rows
                /\ \A e \in rows : SameName(e, s.lock) => id[s.lock] <= id[e]
                /\ \A t \in sections :
                      (Running(t) /\ SameName(t.lock, s.lock)) => t = s

\* C9: once the callback of a failed enqueue has run, atomicLogic was invoked
\* exactly once, with the error; there was no scan, there is no entry, no
\* critical section and no afterUnlock, also after the unlock threw
C9_EnqueueFailure ==
    \A c \in Calls :
        (pc[c] \notin {"idle", "createErr"} /\ id[c] = 0) =>
            /\ pc[c] = "enqueueFailed"
            /\ atomicErrCalls[c] = 1
            /\ atomicCalls[c] = 0
            /\ afterUnlockCalls[c] = 0
            /\ locks[c] = {}
            /\ c \notin rows
            /\ ~ \E s \in sections : s.lock = c

C9_Witness ==
    \E c \in Calls, d \in Calls :
        /\ pc[c] = "enqueueFailed"
        /\ threw[c]
        /\ SameName(c, d)
        /\ pc[d] = "acquired"

\* C10: a release whose findAll or destroy failed passes the error to
\* afterUnlock exactly once, and acquires no next-in-line entry
C10_ReleaseFailure ==
    /\ [](\A s \in sections :
            s.stage = "failed" =>
                /\ s.afterErr = 1
                /\ s.afterArgs = 0
                /\ s.promoted = None)
    /\ [][\A s \in sections :
            (s.stage \in {"findErr", "destroyErr"} /\ s \notin sections')
            => /\ atomicCalls' = atomicCalls
               /\ afterUnlockCalls'[s.lock] = afterUnlockCalls[s.lock] + 1
               /\ Cardinality(sections') = Cardinality(sections)]_vars

C10_Witness ==
    \E s \in sections :
        /\ s.stage = "failed"
        /\ s.nextInLine # None
        /\ Lock(s.nextInLine) \in rows
        /\ pc[Lock(s.nextInLine)] = "queued"

\* C15: normalizeCriteria is idempotent on every input it accepts
C15_Idempotent ==
    norm.step = "twice" => norm.twice = norm.once

\* C11: a facade operation that has come to its end has invoked its
\* callback exactly once
C11_CallbackOnce ==
    op.step = "done" => Len(op.cbs) = 1

\* C12: when normalizeCriteria rejects the criteria, findAll, find, count,
\* update, destroy and findOrCreate make no adapter call
C12_NoForwardOnError ==
    (op.step # "idle" /\ op.method # "create" /\ IsString(normalizeCriteria(op.criteria)))
        => op.adapterCalls = <<>>

\* C13: find calls back with nothing for no model, with the model for one,
\* and with an error and no model for more than one
C13_FindCardinality ==
    (op.step = "done" /\ op.method = "find" /\ op.reply.t = "models") =>
        /\ Len(op.cbs) = 1
        /\ Len(op.reply.list) = 0 =>
              op.cbs[1] = [err |-> NoError, val |-> Undefined]
        /\ Len(op.reply.list) = 1 =>
              op.cbs[1] = [err |-> NoError, val |-> Num(op.reply.list[1])]
        /\ Len(op.reply.list) > 1 =>
              (op.cbs[1].err # NoError /\ op.cbs[1].val = Undefined)

C13_Witness ==
    /\ op.step = "done"
    /\ op.method = "find"
    /\ op.reply.t = "models"
    /\ Len(op.reply.list) > 1
    /\ Len(op.cbs) = 1

\* the names of the attributes an async.forEach was started for
CalledFor(forEachCalls) == {call[1] : call \in forEachCalls}

\* the attributes of both sets whose definitions differ
Changed(attributes, originalAttributes) ==
    {n \in DOMAIN attributes \cap DOMAIN originalAttributes :
        attributes[n] # originalAttributes[n]}

\* the removes have been started
RemovesStarted == alt.step = "removing" \/ alt.cbs # <<>>

\* C16: the default alter calls addAttribute exactly for the attributes that
\* are new or changed, and removeAttribute exactly for those that are gone or
\* changed
C16_DiffSets ==
    (alt.step # "idle" /\ alt.described) =>
        /\ CalledFor(alt.addCalls) =
              (DOMAIN alt.attributes \ DOMAIN alt.originalAttributes)
                  \cup Changed(alt.attributes, alt.originalAttributes)
        /\ RemovesStarted =>
              CalledFor(alt.removeCalls) =
                  (DOMAIN alt.originalAttributes \ DOMAIN alt.attributes)
                      \cup Changed(alt.attributes, alt.originalAttributes)

\* C17 as claimed: no removeAttribute is called before every addAttribute has
\* called back, and cb is called only after every removeAttribute has
\* called back
C17_AddsThenRemovesThenCb ==
    (alt.step # "idle" /\ alt.mode = "columns") =>
        /\ alt.removeCalls # {} => alt.addsPending = {}
        /\ alt.cbs # <<>> => alt.removesPending = {}

\* C17: no removeAttribute is called before every addAttribute has called
\* back, and cb is called without an error only after every removeAttribute
\* has called back
C17_AddsThenRemovesThenCbOk ==
    (alt.step # "idle" /\ alt.mode = "columns") =>
        /\ alt.removeCalls # {} => (alt.addsPending = {} /\ alt.addsFailed = {})
        /\ Len(alt.cbs) <= 1
        /\ (alt.cbs # <<>> /\ alt.cbs[1] = NoError) =>
              (alt.removesPending = {} /\ alt.removesFailed = {})
        /\ (alt.cbs # <<>> /\ alt.cbs[1] # NoError) => alt.removesFailed # {}

C17_Witness ==
    /\ alt.step = "done"
    /\ alt.mode = "columns"
    /\ alt.cbs = <<NoError>>
    /\ Cardinality(alt.addCalls) >= 2
    /\ Cardinality(alt.removeCalls) >= 2

\* C18: after the default alter has called back without an error, every
\* changed attribute exists with its new definition
C18_ChangedAttribute ==
    (alt.step = "done" /\ alt.mode = "columns" /\ alt.cbs = <<NoError>>) =>
        \A n \in Changed(alt.attributes, alt.originalAttributes) :
            n \in DOMAIN alt.schema /\ alt.schema[n] = alt.attributes[n]

\* the runs of the two compound operations
FindOrCreateRuns == {r \in work.runs : name[r.lock] = findOrCreateName}
CreateEachRuns == {r \in work.runs : name[r.lock] = createEachName}

\* the runs that were handed the unlock of an acquired lock
Locked(runs) == {r \in runs : r.k > 0}

\* between the call of find and the call of done
InProgress(r) == r.step \in {"find", "create"}

\* C14: concurrent findOrCreate calls on one collection are serialized: the
\* find-then-create sequences of two calls never interleave, and with no
\* matching record at the start adapter.create is invoked at most once
C14_FindOrCreateSerialized ==
    (work.step # "idle" /\ NoFault /\ work.failures = 0) =>
        /\ \A r1, r2 \in FindOrCreateRuns :
               (InProgress(r1) /\ InProgress(r2)) => r1.lock = r2.lock
        /\ Cardinality({r \in FindOrCreateRuns : r.log # <<>>}) <= 1

\* C19: in the default createEach the creates are sequential: the create of
\* an element is issued only after the create of the element before it has
\* invoked its callback
C19_CreateSequential ==
    work.step # "idle" =>
        \A r \in Locked(CreateEachRuns) : \A j \in 1..Len(r.log) :
            (r.log[j].e = "create" /\ r.log[j].i > 1) =>
                \E h \in 1..(j - 1) :
                    r.log[h].e = "callback" /\ r.log[h].i = r.log[j].i - 1

\* C20: a create that fails inside the default createEach aborts the batch:
\* no create is issued after the failure, done is called once with the error
\* so that cb receives it once, and the lock entry is deleted
C20_BatchAborted ==
    (work.step # "idle" /\ NoFault) =>
        \A r \in Locked(CreateEachRuns) :
            /\ \A j \in 1..Len(r.log), h \in 1..Len(r.log) :
                   (h < j /\ r.log[h].e = "callback" /\ r.log[h].err)
                       => r.log[j].e # "create"
            /\ r.doneCalls <= 1
            /\ \A s \in sections :
                   (s.lock = r.lock /\ s.k = r.k /\ r.failed /\ s.stage = "released")
                       => (s.afterArgs = 1 /\ s.lock \notin rows)

\* the error of define for a collection that exists
AlreadyExists(d) ==
    [err |-> "Trying to define a collection (" \o d.collectionName
                 \o ") which already exists.",
     val |-> Undefined]

\* C21: define calls describe first; when describe reports existing
\* attributes cb receives the 'already exists' error and adapter.define is
\* never called; adapter.define is called only after describe succeeded
\* with no attributes
C21_DefineAfterDescribe ==
    ddl.step # "idle" =>
        /\ (ddl.adapterCalls # <<>> /\ "describe" \in ddl.has)
               => ddl.adapterCalls[1] = "describe"
        /\ (ddl.described.err = NoError /\ IsObject(ddl.described.existing)) =>
               /\ ddl.step = "done"
               /\ ddl.cbs = <<AlreadyExists(ddl)>>
               /\ \A i \in 1..Len(ddl.adapterCalls) : ddl.adapterCalls[i] # "define"
        /\ (\E i \in 1..Len(ddl.adapterCalls) : ddl.adapterCalls[i] = "define") =>
               /\ ddl.described.err = NoError
               /\ ddl.described.existing \in {Undefined, Null}

C21_Witness ==
    /\ ddl.step = "done"
    /\ ddl.has = DdlMethods
    /\ ddl.adapterCalls = <<"describe">>
    /\ IsObject(ddl.described.existing)
    /\ ddl.described.err = NoError
    /\ ddl.cbs = <<AlreadyExists(ddl)>>

\* the adapter calls an invocation of atomicLogic has issued
FindCalls(r) == IF name[r.lock] = findOrCreateName THEN 1 ELSE 0
CreateCalls(r) == Cardinality({j \in 1..Len(r.log) : r.log[j].e = "create"})

\* C22: when the lock of a default findOrCreate or createEach cannot be
\* acquired (enqueue or scan error) the composite is aborted: no
\* adapter.find and no adapter.create is issued for that call
C22_LockFailureAborts ==
    work.step # "idle" =>
        \A r \in work.runs :
            atomicErrCalls[r.lock] > 0 => FindCalls(r) + CreateCalls(r) = 0

\* C23: after a failed scan atomicLogic has been invoked with the error, and
\* the entry of that call is never deleted: it stays in the transaction
\* collection, and no later transaction of the same name acquires
C23_ScanFailureLeavesEntry ==
    \A c \in Calls :
        pc[c] = "scanFailed" =>
            /\ atomicErrCalls[c] = 1
            /\ c \in rows
            /\ \A d \in Calls : (SameName(c, d) /\ id[d] > id[c]) => atomicCalls[d] = 0

====
